---- MODULE Spec2Model ----
(***************************************************************************)
(* Model of the strTools namespace (src/src/strtools.hh, version 1.0.2)    *)
(* together with the helper it validates its arguments with               *)
(* (__StrUtilHelper::checkLogicErrors, src/src/functions.cpp).             *)
(*                                                                         *)
(* A C string is modelled by its content: the sequence of non-zero bytes   *)
(* before the terminating NUL.  A heap buffer is the sequence of all its   *)
(* bytes, NUL bytes included.  uint64_t / size_t arithmetic is modelled    *)
(* at width W: every sum and difference the code computes is taken         *)
(* modulo 2^W.                                                             *)
(***************************************************************************)
EXTENDS Integers, Sequences, FiniteSets, TLC

\* ------------------------------------------------------------------ bounds
\* Longest input string the model draws.
MaxLen == 3
\* Width in bits of the model's uint64_t / size_t.
W == 5

\* Number of values of an unsigned integer of width W.
Word == 2 ^ W
\* The values of an unsigned integer of width W.
Words == 0 .. (Word - 1)
\* PTRDIFF_MAX: operator new[] refuses every request above it.
PtrDiffMax == (Word \div 2) - 1
\* The bytes input strings are made of: 'A', 'a', 'b'.
Alphabet == {65, 97, 98}
\* Input C strings: every content of at most MaxLen bytes.
Strings == UNION { [1 .. n -> Alphabet] : n \in 0 .. MaxLen }
\* Input C strings of at most MaxLen - 1 bytes.
ShortStrings == { s \in Strings : Len(s) < MaxLen }
\* Input C strings of at most MaxLen - 2 bytes.
TinyStrings == { s \in Strings : Len(s) < MaxLen - 1 }
\* sizeof(const char*), the size strUtil::toLower(const char*) allocates.
SizeofPtr == 8
\* Input C strings around the size of that buffer: SizeofPtr - 1, SizeofPtr
\* and SizeofPtr + 1 bytes, all upper case, all lower case, or mixed.
LongStrings ==
    { [k \in 1 .. n |-> c] : n \in (SizeofPtr - 1) .. (SizeofPtr + 1), c \in {65, 97} }
        \cup { [k \in 1 .. n |-> IF k = 1 THEN 65 ELSE 97] :
                    n \in (SizeofPtr - 1) .. (SizeofPtr + 1) }
\* "Hello, World!", "World" and "Hello, !" of the documented examples.
HelloWorld == <<72, 101, 108, 108, 111, 44, 32, 87, 111, 114, 108, 100, 33>>
World == <<87, 111, 114, 108, 100>>
HelloBang == <<72, 101, 108, 108, 111, 44, 32, 33>>
\* The strings findSubStr is called with.
FindStrings == Strings \cup LongStrings \cup {HelloWorld, World}
\* INT64_MAX at width W, the value findSubStr returns for "not found".
Int64Max == (Word \div 2) - 1

\* ------------------------------------------------------- results of a call
\* Normal return of a uniqueStr whose C string content is v.
Ok(v) == [kind |-> "ok", val |-> v]
\* The exception checkLogicErrors throws.
Throw == [kind |-> "runtime_error", val |-> <<>>]
\* std::bad_alloc out of std::make_unique.
BadAlloc == [kind |-> "bad_alloc", val |-> <<>>]
\* The call ran into undefined behaviour (a write past the end of a buffer).
UB == [kind |-> "ub", val |-> <<>>]
\* The program was killed (std::terminate, or a fault).
Crash == [kind |-> "crash", val |-> <<>>]
\* No call has been made yet.
NoRet == [kind |-> "none", val |-> <<>>]

\* What the caller can observe of a result: undefined behaviour shows as a
\* crash or as a returned buffer of arbitrary content.
Outcomes(r) ==
    IF r.kind = "ub" THEN {Crash} \cup { Ok(v) : v \in ShortStrings } ELSE {r}

\* ------------------------------------------------------- <cstring>, <memory>
min(a, b) == IF a < b THEN a ELSE b

\* strlen of a C string given by its content.
strlen(s) == Len(s)

\* The bytes of the C string s from offset k on (the pointer s + k), k <= strlen(s).
From(s, k) == SubSeq(s, k + 1, Len(s))

\* std::make_unique<char[]>(n): n value-initialised (zero) bytes, or
\* std::bad_alloc when the request is larger than any object can be.
allocFails(n) == n > PtrDiffMax
make_unique(n) == [k \in 1 .. n |-> 0]

\* The C string stored in buffer b: the bytes before its first NUL.
RECURSIVE CStr(_)
CStr(b) == IF b = <<>> \/ Head(b) = 0 THEN <<>> ELSE <<Head(b)>> \o CStr(Tail(b))

\* TRUE when buffer b holds a NUL, so that reading it as a C string stays inside b.
Terminated(b) == \E k \in 1 .. Len(b) : b[k] = 0

\* Buffer b after writing the bytes bs at 0-based offset off (inside b).
WriteAt(b, off, bs) ==
    [k \in 1 .. Len(b) |->
        IF k > off /\ k <= off + Len(bs) THEN bs[k - off] ELSE b[k]]

\* strcpy(dst, src) writes strlen(src) + 1 bytes at the start of dst.
strcpyFits(dst, src) == Len(src) + 1 <= Len(dst)
strcpy(dst, src) == WriteAt(dst, 0, src \o <<0>>)

\* strcat(dst, src) writes strlen(src) + 1 bytes at the NUL of dst.
strcatFits(dst, src) ==
    Terminated(dst) /\ Len(CStr(dst)) + Len(src) + 1 <= Len(dst)
strcat(dst, src) == WriteAt(dst, Len(CStr(dst)), src \o <<0>>)

\* strncpy(dst, src, n) writes exactly n bytes: the first min(n, strlen(src))
\* bytes of src, then NUL padding.
strncpyFits(dst, n) == n <= Len(dst)
strncpy(dst, src, n) ==
    WriteAt(dst, 0, [k \in 1 .. n |-> IF k <= Len(src) THEN src[k] ELSE 0])

\* ------------------------------------------------ __StrUtilHelper (helper)
\* checkLogicErrors(rule, msg) throws exactly when rule is true.
checkLogicErrors(rule) == rule

\* ------------------------------------------------------------- strTools
\* concatStr with the second copy made by strcpy instead of strcat.
concatStr_strcpyTwice(s1, s2) ==
    LET n == (strlen(s1) + strlen(s2) + 1) % Word
        r0 == make_unique(n)
    IN  IF allocFails(n) THEN Crash
        ELSE IF ~strcpyFits(r0, s1) THEN UB
        ELSE LET r1 == strcpy(r0, s1)
             IN  IF ~strcpyFits(r1, s2) THEN UB
                 ELSE Ok(CStr(strcpy(r1, s2)))

\* strTools::concatStr(s1, s2).  The function is noexcept: a std::bad_alloc
\* leaving it ends the program through std::terminate.
concatStr(s1, s2) ==
    LET lenS1 == strlen(s1)
        lenS2 == strlen(s2)
        n == (lenS1 + lenS2 + 1) % Word
        r0 == make_unique(n)
    IN  IF allocFails(n) THEN Crash
        ELSE IF ~strcpyFits(r0, s1) THEN UB
        ELSE LET r1 == strcpy(r0, s1)
             IN  IF ~strcatFits(r1, s2) THEN UB
                 ELSE Ok(CStr(strcat(r1, s2)))

\* subStr copying from the start of s instead of from s + i.
subStr_noOffset(s, i, j) ==
    LET sLen == strlen(s)
        n == (j + 1) % Word
        r0 == make_unique(n)
    IN  IF checkLogicErrors(i >= sLen \/ (i + j) % Word > sLen) THEN Throw
        ELSE IF allocFails(n) THEN BadAlloc
        ELSE IF ~strncpyFits(r0, j) THEN UB
        ELSE LET r1 == strncpy(r0, s, j)
             IN  IF j >= Len(r1) THEN UB
                 ELSE Ok(CStr(WriteAt(r1, j, <<0>>)))

\* subStr checking only the sum i + j against the length.
subStr_sumOnly(s, i, j) ==
    LET sLen == strlen(s)
        n == (j + 1) % Word
        r0 == make_unique(n)
    IN  IF checkLogicErrors((i + j) % Word > sLen) THEN Throw
        ELSE IF allocFails(n) THEN BadAlloc
        ELSE IF ~strncpyFits(r0, j) THEN UB
        ELSE LET r1 == strncpy(r0, From(s, min(i, sLen)), j)
             IN  IF j >= Len(r1) THEN UB
                 ELSE Ok(CStr(WriteAt(r1, j, <<0>>)))

\* strTools::subStr(s, i, j)
subStr(s, i, j) ==
    LET sLen == strlen(s)
        n == (j + 1) % Word
        r0 == make_unique(n)
    IN  IF checkLogicErrors(i >= sLen \/ (i + j) % Word > sLen) THEN Throw
        ELSE IF allocFails(n) THEN BadAlloc
        ELSE IF ~strncpyFits(r0, j) THEN UB
        ELSE LET r1 == strncpy(r0, From(s, i), j)
             IN  IF j >= Len(r1) THEN UB
                 ELSE Ok(CStr(WriteAt(r1, j, <<0>>)))

\* strTools::insertStr(s1, s2, i)
insertStr(s1, s2, i) ==
    IF checkLogicErrors(1 <= i \/ i <= (strlen(s1) + 1) % Word) THEN Throw
    ELSE LET p1 == subStr(s1, 0, (i - 1) % Word)
         IN  IF p1.kind # "ok" THEN p1
             ELSE LET p2 == concatStr(p1.val, s2)
                  IN  IF p2.kind # "ok" THEN p2
                      ELSE LET p3 == subStr(s1, (i - 1) % Word,
                                            (strlen(s1) - ((i - 1) % Word)) % Word)
                           IN  IF p3.kind # "ok" THEN p3
                               ELSE concatStr(p2.val, p3.val)

\* strTools::delSubStr(s, i, j)
delSubStr(s, i, j) ==
    LET x == (i + j - 1) % Word
    IN  IF checkLogicErrors(0 <= i /\ i < strlen(s)) THEN Throw
        ELSE IF checkLogicErrors(0 <= j /\ j < strlen(s)) THEN Throw
        ELSE IF checkLogicErrors(0 <= x /\ x < strlen(s)) THEN Throw
        ELSE LET p1 == subStr(s, 0, (i - 1) % Word)
             IN  IF p1.kind # "ok" THEN p1
                 ELSE LET p2 == subStr(s, x, (strlen(s) - x) % Word)
                      IN  IF p2.kind # "ok" THEN p2
                          ELSE concatStr(p1.val, p2.val)

\* ------------------------------------------------------------- strUtil
\* tolower in the "C" locale.
tolower == [c \in 0 .. 255 |-> IF c \in 65 .. 90 THEN c + 32 ELSE c]

\* __StrUtilHelper::toSomething(s, f): f applied in place to every byte of s
\* before its NUL.
toSomething(s, f) == [k \in 1 .. Len(s) |-> f[s[k]]]

\* strUtil::toLower(char*): the in-place overload.
toLowerInPlace(s) == toSomething(s, tolower)

\* __StrUtilHelper::checkInvalidCharPtr(s, from): TRUE for an empty string.
checkInvalidCharPtr(s) == s = <<>>

\* strUtil::toLower(const char*): a copy of src in a buffer of SizeofPtr
\* bytes, lowered in place.  For an empty src the buffer is one
\* uninitialised byte, which findSubStr never reads.
toLower(src) ==
    IF checkInvalidCharPtr(src) THEN Ok(<<>>)
    ELSE LET s0 == [k \in 1 .. SizeofPtr |-> 0]
         IN  IF ~strcpyFits(s0, src) THEN UB
             ELSE Ok(toLowerInPlace(CStr(strcpy(s0, src))))

\* ------------------------------------------------- strTools, continued
\* A value findSubStr returns.
Found(n) == [kind |-> "ok", val |-> n]

\* The scan of findSubStr from offset i on: the first offset at which
\* lowFind matches lowS, or Int64Max after offset lenS - lenFind.
RECURSIVE scanFrom(_, _, _)
scanFrom(lowS, lowFind, i) ==
    IF i > Len(lowS) - Len(lowFind) THEN Int64Max
    ELSE IF \A j \in 0 .. Len(lowFind) - 1 : lowS[i + j + 1] = lowFind[j + 1]
         THEN i
         ELSE scanFrom(lowS, lowFind, i + 1)

\* strTools::findSubStr(s, find)
findSubStr(s, find) ==
    LET lenS == strlen(s)
        lenFind == strlen(find)
        lowS == toLower(s)
        lowFind == toLower(find)
    IN  IF lowS.kind # "ok" THEN lowS
        ELSE IF lowFind.kind # "ok" THEN lowFind
        ELSE IF lenS = 0 \/ lenFind > lenS THEN Found(Int64Max)
        ELSE IF lenFind = 0 THEN Found(0)
        ELSE Found(scanFrom(lowS.val, lowFind.val, 0))

\* TRUE when sub occurs in s at the 0-based offset p, byte for byte.
OccursAt(s, sub, p) ==
    p + Len(sub) <= Len(s) /\ SubSeq(s, p + 1, p + Len(sub)) = sub

\* strstr returning the last occurrence instead of the first.
strstr_last(s, sub) ==
    LET ps == { p \in 0 .. Len(s) : OccursAt(s, sub, p) }
    IN  IF ps = {} THEN -1 ELSE CHOOSE p \in ps : \A q \in ps : q <= p

\* strstr(s, sub): the offset of the first occurrence of sub in s, -1 for NULL.
strstr(s, sub) ==
    LET ps == { p \in 0 .. Len(s) : OccursAt(s, sub, p) }
    IN  IF ps = {} THEN -1 ELSE CHOOSE p \in ps : \A q \in ps : p <= q

\* The lambda getSubStr of replaceStr: the offset strstr finds, 0 for NULL.
getSubStr(s, sub) ==
    LET pos == strstr(s, sub) IN IF pos # -1 THEN pos ELSE 0

\* strTools::replaceStr(s, sub1, sub2)
replaceStr(s, sub1, sub2) ==
    LET pos0 == getSubStr(s, sub1)
        pos == IF pos0 > Int64Max THEN 0 ELSE pos0
        lenS == strlen(s)
        lenSub1 == strlen(sub1)
        lenSub2 == strlen(sub2)
        newLen == (lenS - lenSub1 + lenSub2) % Word
        n == (newLen + 1) % Word
        r0 == make_unique(n)
    IN  IF allocFails(n) THEN BadAlloc
        ELSE IF ~strncpyFits(r0, pos) THEN UB
        ELSE LET r1 == strncpy(r0, s, pos)
             IN  IF pos >= Len(r1) THEN UB
                 ELSE LET r2 == WriteAt(r1, pos, <<0>>)
                      IN  IF ~strcatFits(r2, sub2) THEN UB
                          ELSE LET r3 == strcat(r2, sub2)
                               IN  IF pos + lenSub1 > lenS THEN UB
                                   ELSE IF ~strcatFits(r3, From(s, pos + lenSub1)) THEN UB
                                   ELSE Ok(CStr(strcat(r3, From(s, pos + lenSub1))))

\* ------------------------------------------------------------ the callers
\* concat(substring(s, 0, i), substring(s, i, length(s) - i))
splitJoin(s, i) ==
    LET a == subStr(s, 0, i)
    IN  IF a.kind # "ok" THEN a
        ELSE LET b == subStr(s, i, (strlen(s) - i) % Word)
             IN  IF b.kind # "ok" THEN b
                 ELSE concatStr(a.val, b.val)

\* deleteRange(insert(s1, s2, i), i, length(s2))
insertThenDelete(s1, s2, i) ==
    LET r == insertStr(s1, s2, i)
    IN  IF r.kind # "ok" THEN r
        ELSE delSubStr(r.val, i, strlen(s2))

\* ------------------------------------------------- buffers a call allocates
\* The number of string buffers a call has obtained from the heap when it
\* ends, by return or by exception.
concatStrAllocs(s1, s2) ==
    IF allocFails((strlen(s1) + strlen(s2) + 1) % Word) THEN 0 ELSE 1

subStrAllocs(s, i, j) ==
    IF checkLogicErrors(i >= strlen(s) \/ (i + j) % Word > strlen(s)) THEN 0
    ELSE IF allocFails((j + 1) % Word) THEN 0 ELSE 1

insertStrAllocs(s1, s2, i) ==
    IF checkLogicErrors(1 <= i \/ i <= (strlen(s1) + 1) % Word) THEN 0
    ELSE LET p1 == subStr(s1, 0, (i - 1) % Word)
             a1 == subStrAllocs(s1, 0, (i - 1) % Word)
         IN  IF p1.kind # "ok" THEN a1
             ELSE LET p2 == concatStr(p1.val, s2)
                      a2 == a1 + concatStrAllocs(p1.val, s2)
                  IN  IF p2.kind # "ok" THEN a2
                      ELSE LET y == (strlen(s1) - ((i - 1) % Word)) % Word
                               p3 == subStr(s1, (i - 1) % Word, y)
                               a3 == a2 + subStrAllocs(s1, (i - 1) % Word, y)
                           IN  IF p3.kind # "ok" THEN a3
                               ELSE a3 + concatStrAllocs(p2.val, p3.val)

delSubStrAllocs(s, i, j) ==
    LET x == (i + j - 1) % Word
    IN  IF checkLogicErrors(0 <= i /\ i < strlen(s)) THEN 0
        ELSE IF checkLogicErrors(0 <= j /\ j < strlen(s)) THEN 0
        ELSE IF checkLogicErrors(0 <= x /\ x < strlen(s)) THEN 0
        ELSE LET p1 == subStr(s, 0, (i - 1) % Word)
                 a1 == subStrAllocs(s, 0, (i - 1) % Word)
             IN  IF p1.kind # "ok" THEN a1
                 ELSE LET p2 == subStr(s, x, (strlen(s) - x) % Word)
                          a2 == a1 + subStrAllocs(s, x, (strlen(s) - x) % Word)
                      IN  IF p2.kind # "ok" THEN a2
                          ELSE a2 + concatStrAllocs(p1.val, p2.val)

\* findSubStr allocates its two lowered copies before anything else.
findSubStrAllocs(s, find) == IF toLower(s).kind # "ok" THEN 1 ELSE 2

replaceStrAllocs(s, sub1, sub2) ==
    IF allocFails((((strlen(s) - strlen(sub1) + strlen(sub2)) % Word) + 1) % Word)
    THEN 0 ELSE 1

splitJoinAllocs(s, i) ==
    LET a == subStr(s, 0, i)
        n1 == subStrAllocs(s, 0, i)
    IN  IF a.kind # "ok" THEN n1
        ELSE LET b == subStr(s, i, (strlen(s) - i) % Word)
                 n2 == n1 + subStrAllocs(s, i, (strlen(s) - i) % Word)
             IN  IF b.kind # "ok" THEN n2
                 ELSE n2 + concatStrAllocs(a.val, b.val)

insertThenDeleteAllocs(s1, s2, i) ==
    LET r == insertStr(s1, s2, i)
    IN  IF r.kind # "ok" THEN insertStrAllocs(s1, s2, i)
        ELSE insertStrAllocs(s1, s2, i) + delSubStrAllocs(r.val, i, strlen(s2))

\* ------------------------------------------------------------- __StrLogger
\* __StrLogger::__StrLogger(): file closed, logger disabled.
LoggerInit == [isLoggerEnabled |-> FALSE, isFileOpen |-> FALSE, logFile |-> ""]

\* setLogFile without its first line, the return of a disabled logger.
setLogFile_unguarded(lg, filename, opened) ==
    [lg EXCEPT !.isFileOpen = opened, !.logFile = IF opened THEN filename ELSE ""]
\* __StrLogger::setLogFile(filename): a disabled logger returns at once; an
\* enabled one closes the file it has and opens filename, which succeeds
\* (opened) or fails and leaves no file open.
setLogFile(lg, filename, opened) ==
    IF ~lg.isLoggerEnabled THEN lg
    ELSE [lg EXCEPT !.isFileOpen = opened, !.logFile = IF opened THEN filename ELSE ""]

\* __StrLogger::log(level, message): where the message is written.
log(lg) ==
    [console |-> lg.isLoggerEnabled,
     file |-> lg.isLoggerEnabled /\ lg.isFileOpen]

\* Nothing has been written.
NoOut == [console |-> FALSE, file |-> FALSE]

\* ---------------------------------------------------------- console input
\* The newline that ends every line typed at the terminal.
NL == 10
\* The characters operator>> skips before a number.
WhiteSpace == {NL, 32}
\* '0' .. '9' and the sign.
Digits == 48 .. 57
Minus == 45
\* "/exit", the line that ends an operation.
ExitLine == <<47, 101, 120, 105, 116>>
\* #define STRING_MAX_SIZE: the size of the input buffers of main.
STRING_MAX_SIZE == 7
\* INT32_MAX of the selector, kept as much narrower than uint64_t as in the code.
Int32Max == (Word \div 4) - 1
\* How many lines the user types before the program has read them.
MaxPending == 2

\* The length of the longest prefix of buf whose characters are all in S.
PrefixLen(buf, S) ==
    CHOOSE n \in 0 .. Len(buf) :
        /\ \A k \in 1 .. n : buf[k] \in S
        /\ n = Len(buf) \/ buf[n + 1] \notin S
\* buf without its first n characters.
Drop(buf, n) == SubSeq(buf, n + 1, Len(buf))
\* The first n characters of buf.
Take(buf, n) == SubSeq(buf, 1, n)
\* The number of complete lines waiting in buf.
Pending(buf) == Cardinality({ k \in 1 .. Len(buf) : buf[k] = NL })
\* The number a sequence of decimal digits denotes.
RECURSIVE DigitsVal(_)
DigitsVal(ds) ==
    IF ds = <<>> THEN 0
    ELSE 10 * DigitsVal(Take(ds, Len(ds) - 1)) + (ds[Len(ds)] - 48)

\* cin.ignore(): one character is extracted and thrown away.
ignore(buf) == Drop(buf, 1)
\* cin.ignore(numeric_limits<streamsize>::max(), '\n'): everything up to and
\* including the next newline is thrown away.
ignoreLine(buf) == Drop(buf, min(PrefixLen(buf, 0 .. 255 \ {NL}) + 1, Len(buf)))
\* cin.sync() on the standard input, whose effect the implementation
\* defines: the lines typed before it runs stay in the stream (fflush of an
\* input stream that keeps its buffer) or are thrown away (fflush that
\* clears it).  What is left are the lines typed since, at least the one
\* that the read after it returns with.
sync(buf) ==
    {buf} \cup { Drop(buf, k) : k \in { j \in 1 .. Len(buf) - 1 : buf[j] = NL } }

\* cin >> selector for an int32_t: white space is skipped, then an optional
\* sign and digits are extracted.  Without a digit nothing more is extracted
\* and the stream fails; a number that does not fit fails too and stores the
\* nearest limit.
extractInt(buf) ==
    LET b0 == Drop(buf, PrefixLen(buf, WhiteSpace))
        neg == b0 # <<>> /\ b0[1] = Minus
        b1 == IF neg THEN Drop(b0, 1) ELSE b0
        n == PrefixLen(b1, Digits)
        v == DigitsVal(Take(b1, n))
    IN  IF n = 0 THEN [fail |-> TRUE, val |-> 0, rest |-> b0]
        ELSE IF ~neg /\ v > Int32Max
             THEN [fail |-> TRUE, val |-> Int32Max, rest |-> Drop(b1, n)]
        ELSE IF neg /\ v > Int32Max + 1
             THEN [fail |-> TRUE, val |-> -(Int32Max + 1), rest |-> Drop(b1, n)]
        ELSE [fail |-> FALSE, val |-> IF neg THEN -v ELSE v, rest |-> Drop(b1, n)]

\* cin.getline(input, size): characters are stored until the newline, which
\* is extracted and not stored, or until size - 1 characters are stored, which
\* sets failbit and leaves the rest of the line in the stream.
getline(buf, size) ==
    LET lineLen == PrefixLen(buf, 0 .. 255 \ {NL})
    IN  IF lineLen <= size - 1
        THEN [input |-> Take(buf, lineLen), fail |-> FALSE,
              rest |-> Drop(buf, lineLen + 1)]
        ELSE [input |-> Take(buf, size - 1), fail |-> TRUE,
              rest |-> Drop(buf, size - 1)]

\* helpers::userInputHandler(input, size): cin.get() until it returns the
\* newline or size - 1 characters are stored; then, unless the line is the
\* exit line, cin.ignore(max, '\n') whenever size - 1 characters were stored.
\* The call returns once every character it extracts has been typed.
helpers_userInputHandler(buf, size) ==
    LET lineLen == PrefixLen(buf, 0 .. 255 \ {NL})
        chCount == min(lineLen, size - 1)
        input == Take(buf, chCount)
        rest == Drop(buf, chCount + 1)
    IN  IF input = ExitLine
        THEN [input |-> input, exit |-> TRUE, rest |-> rest, returns |-> TRUE]
        ELSE IF chCount = size - 1
             THEN [input |-> input, exit |-> FALSE, rest |-> ignoreLine(rest),
                   returns |-> Pending(rest) > 0]
        ELSE [input |-> input, exit |-> FALSE, rest |-> rest, returns |-> TRUE]

\* strUtil::userInputHandler(input, size) on a buffer of size bytes: what is
\* stored in input, whether it is the exit line, and what is left in cin,
\* for each of the effects cin.sync() can have.
userInputHandler(buf, size) ==
    { LET g == getline(b, size)
      IN  IF g.fail
          THEN [input |-> g.input, exit |-> FALSE, rest |-> ignoreLine(g.rest)]
          ELSE [input |-> g.input, exit |-> g.input = ExitLine, rest |-> g.rest]
      : b \in sync(buf) }

\* ------------------------------------------------------------------- main
\* The text main shows under the menu, with the string it was built from.
Msg(text, val) == [text |-> text, val |-> val]
\* The locals of main at the top of its loop, before anything was selected.
\* unit tells which of the two main functions runs: the one of main.cpp,
\* whose input strings point at the literal "", or the one of part_002,
\* which reads into heap buffers, logs, and has a case -1.
MainInit ==
    [unit |-> "main.cpp",
     pc |-> "menu", mainLoop |-> TRUE, selector |-> 0, extraMsg |-> Msg(":D", <<>>),
     strs |-> <<>>, startPos |-> 0, strLowIndex |-> 0, strUppIndex |-> 0,
     cout |-> ""]
MainUnits == {"main.cpp", "part_002"}
\* The label of the switch that a selector value jumps to.
switchLabel(unit, selector) ==
    IF selector \in {0, 1, 2, 3, 4}
    THEN <<"case 0", "case 1", "case 2", "case 3", "case 4">>[selector + 1]
    ELSE IF selector = -1 /\ unit = "part_002" THEN "case -1"
    ELSE "default"

\* ------------------------------------------------------------------ state
VARIABLES
    cin,    \* the characters typed at the terminal and not yet read
    main,   \* the locals of main, its position and what it last printed
    call,   \* the last call made: its name and arguments
    ret,    \* what that call produced
    allocs, \* the number of string buffers that call allocated
    mem,    \* the caller's argument strings after the call, and whether the
            \* returned buffer shares storage with one of them
    logger, \* the fields of __strToolsLogger
    out     \* whether that call wrote a log line to the console, to the file

vars == <<call, ret, allocs, mem, logger, out, cin, main>>

Call(op, s, t, i, j) == [op |-> op, s |-> s, t |-> t, u |-> <<>>, i |-> i, j |-> j]

\* The caller's memory when nothing has touched the arguments s and t.
Untouched(s, t) == [s |-> s, t |-> t, shared |-> FALSE]

\* The string x after stray bytes were written over it.
Scribbled(x) ==
    IF x = <<>> THEN <<98>> ELSE [k \in 1 .. Len(x) |-> IF x[k] = 98 THEN 65 ELSE 98]

\* The caller's memory after the call c that produced r: a write past the end of
\* a heap buffer lands in whatever lies behind it, an argument included.
ArgsAfter(r, c) ==
    IF r.kind = "ub"
    THEN {Untouched(c.s, c.t), [s |-> Scribbled(c.s), t |-> c.t, shared |-> FALSE]}
            \cup IF c.op \in {"subStr", "delSubStr", "splitJoin"} THEN {}
                 ELSE {[s |-> c.s, t |-> Scribbled(c.t), shared |-> FALSE]}
    ELSE {Untouched(c.s, c.t)}

\* What the caller can observe of a findSubStr result.
FindOutcomes(r) ==
    IF r.kind = "ub"
    THEN {Crash} \cup { Found(n) : n \in (0 .. MaxLen) \cup {Int64Max} }
    ELSE {r}

\* The call c ends with one of the results rs, having allocated n buffers.
Finished(c, r, rs, n) ==
    /\ call' = c
    /\ ret' \in rs
    /\ allocs' = n
    /\ mem' \in ArgsAfter(r, c)
    /\ out' = log(logger)
    /\ UNCHANGED logger

\* The same for a call made outside main: the console is left alone.
Finish(c, r, rs, n) ==
    /\ Finished(c, r, rs, n)
    /\ UNCHANGED <<cin, main>>

Init ==
    /\ call = Call("none", <<>>, <<>>, 0, 0)
    /\ ret = NoRet
    /\ allocs = 0
    /\ mem = Untouched(<<>>, <<>>)
    /\ logger = LoggerInit
    /\ out = NoOut
    /\ cin = <<>>
    /\ main = MainInit

DoConcat ==
    /\ call.op = "none"
    /\ \E s1 \in Strings, s2 \in Strings :
        LET r == concatStr(s1, s2)
        IN  Finish(Call("concatStr", s1, s2, 0, 0), r, Outcomes(r),
                   concatStrAllocs(s1, s2))

DoSubStr ==
    /\ call.op = "none"
    /\ \E s \in Strings, i \in Words, j \in Words :
        LET r == subStr(s, i, j)
        IN  Finish(Call("subStr", s, <<>>, i, j), r, Outcomes(r),
                   subStrAllocs(s, i, j))

DoInsert ==
    /\ call.op = "none"
    /\ \E s1 \in Strings, s2 \in Strings, i \in Words :
        LET r == insertStr(s1, s2, i)
        IN  Finish(Call("insertStr", s1, s2, i, 0), r, Outcomes(r),
                   insertStrAllocs(s1, s2, i))

DoDelete ==
    /\ call.op = "none"
    /\ \E s \in Strings \cup {HelloWorld}, i \in Words, j \in Words :
        LET r == delSubStr(s, i, j)
        IN  Finish(Call("delSubStr", s, <<>>, i, j), r, Outcomes(r),
                   delSubStrAllocs(s, i, j))

DoFind ==
    /\ call.op = "none"
    /\ \E s \in FindStrings, find \in FindStrings :
        LET r == findSubStr(s, find)
        IN  Finish(Call("findSubStr", s, find, 0, 0), r, FindOutcomes(r),
                   findSubStrAllocs(s, find))

DoReplace ==
    /\ call.op = "none"
    /\ \E s \in Strings, sub1 \in ShortStrings, sub2 \in TinyStrings :
        LET r == replaceStr(s, sub1, sub2)
        IN  Finish([Call("replaceStr", s, sub1, 0, 0) EXCEPT !.u = sub2],
                   r, Outcomes(r), replaceStrAllocs(s, sub1, sub2))

DoSplitJoin ==
    /\ call.op = "none"
    /\ \E s \in Strings, i \in Words :
        /\ i <= strlen(s)
        /\ LET r == splitJoin(s, i)
           IN  Finish(Call("splitJoin", s, <<>>, i, 0), r, Outcomes(r),
                      splitJoinAllocs(s, i))

DoInsertThenDelete ==
    /\ call.op = "none"
    /\ \E s1 \in Strings, s2 \in Strings, i \in Words :
        LET r == insertThenDelete(s1, s2, i)
        IN  Finish(Call("insertThenDelete", s1, s2, i, 0), r, Outcomes(r),
                   insertThenDeleteAllocs(s1, s2, i))

\* subStr(s, findSubStr(s, find), j): the offset is whatever findSubStr
\* returned, kept in call.i.
DoFindThenSubStr ==
    /\ call.op = "none"
    /\ \E s \in Strings \cup LongStrings, find \in ShortStrings, j \in Words :
        \E f \in FindOutcomes(findSubStr(s, find)) :
            IF f.kind # "ok"
            THEN Finish(Call("findThenSubStr", s, find, 0, j), f, {f},
                        findSubStrAllocs(s, find))
            ELSE LET r == subStr(s, f.val, j)
                 IN  Finish(Call("findThenSubStr", s, find, f.val, j), r,
                            Outcomes(r),
                            findSubStrAllocs(s, find) + subStrAllocs(s, f.val, j))

\* The call returns to its caller, which is then free to make the next call.
Return ==
    /\ call.op # "none"
    /\ call' = Call("none", <<>>, <<>>, 0, 0)
    /\ ret' = NoRet
    /\ allocs' = 0
    /\ mem' = Untouched(<<>>, <<>>)
    /\ out' = NoOut
    /\ UNCHANGED <<logger, cin, main>>

Next ==
    \/ DoConcat
    \/ DoSubStr
    \/ DoInsert
    \/ DoDelete
    \/ DoFind
    \/ DoReplace
    \/ DoSplitJoin
    \/ DoInsertThenDelete
    \/ DoFindThenSubStr
    \/ Return

Spec == Init /\ [][Next]_vars

\* ------------------------------------------- the library with its logger
\* The arguments of the calls made while the logger is switched on and off:
\* short strings and one string of SizeofPtr bytes; small and large numbers.
LogStrings == TinyStrings \cup {[k \in 1 .. SizeofPtr |-> 97]}
LogWords == {0, 1, Word - 1}
\* The names of the files that setLogFile is called with.
FileNames == {"a.log", "b.log"}

\* The function of strTools named op applied to its arguments.
Apply(op, s, t, u, i, j) ==
    CASE op = "concatStr" -> concatStr(s, t)
      [] op = "subStr" -> subStr(s, i, j)
      [] op = "insertStr" -> insertStr(s, t, i)
      [] op = "delSubStr" -> delSubStr(s, i, j)
      [] op = "findSubStr" -> findSubStr(s, t)
      [] op = "replaceStr" -> replaceStr(s, t, u)

\* The number of buffers that call allocates.
ApplyAllocs(op, s, t, u, i, j) ==
    CASE op = "concatStr" -> concatStrAllocs(s, t)
      [] op = "subStr" -> subStrAllocs(s, i, j)
      [] op = "insertStr" -> insertStrAllocs(s, t, i)
      [] op = "delSubStr" -> delSubStrAllocs(s, i, j)
      [] op = "findSubStr" -> findSubStrAllocs(s, t)
      [] op = "replaceStr" -> replaceStrAllocs(s, t, u)

\* The parameters the function named op does not have are left at their defaults.
TakesArgs(op, t, u, i, j) ==
    /\ op \in {"subStr", "delSubStr"} => t = <<>>
    /\ op # "replaceStr" => u = <<>>
    /\ op \in {"concatStr", "findSubStr", "replaceStr"} => i = 0
    /\ op \notin {"subStr", "delSubStr"} => j = 0

\* __StrLogger::toggleLogger()
ToggleLogger ==
    /\ call.op = "none"
    /\ logger' = [logger EXCEPT !.isLoggerEnabled = ~logger.isLoggerEnabled]
    /\ UNCHANGED <<call, ret, allocs, mem, out, cin, main>>

\* __StrLogger::setLogFile(filename); opening the file succeeds or fails.
SetLogFile ==
    /\ call.op = "none"
    /\ \E filename \in FileNames, opened \in BOOLEAN :
        logger' = setLogFile(logger, filename, opened)
    /\ UNCHANGED <<call, ret, allocs, mem, out, cin, main>>

\* A call of one of the library's functions, in whatever state the logger is.
LoggedCall ==
    /\ call.op = "none"
    /\ \E op \in {"concatStr", "subStr", "insertStr", "delSubStr",
                   "findSubStr", "replaceStr"},
          s \in LogStrings, t \in LogStrings, u \in TinyStrings,
          i \in LogWords, j \in LogWords :
        /\ TakesArgs(op, t, u, i, j)
        /\ LET r == Apply(op, s, t, u, i, j)
           IN  Finish([Call(op, s, t, i, j) EXCEPT !.u = u], r,
                      IF op = "findSubStr" THEN FindOutcomes(r) ELSE Outcomes(r),
                      ApplyAllocs(op, s, t, u, i, j))

NextLogger ==
    \/ ToggleLogger
    \/ SetLogFile
    \/ LoggedCall
    \/ Return

SpecLogger == Init /\ [][NextLogger]_vars

\* --------------------------------------------------------- the menu of main
\* The lines typed at the menu: 0 to 5, -1, 9 which is more than selector
\* can hold, and a line that is no number.
Selections ==
    { <<d>> : d \in {48, 49, 50, 51, 52, 53, 57} } \cup { <<Minus, 49>>, <<120>> }
\* The lines typed at the prompt of an option: strings and the exit line.
Texts == { <<>>, <<98>>, <<97, 98>>, ExitLine }
\* Lines of STRING_MAX_SIZE - 1 and of STRING_MAX_SIZE characters.
LongTexts == { [k \in 1 .. n |-> 97] : n \in {STRING_MAX_SIZE - 1, STRING_MAX_SIZE} }
\* What the user types at the prompt that main shows at pc.
Lines(pc) ==
    IF pc = "menu" THEN Selections
    ELSE IF pc = "case1" THEN Texts \cup LongTexts
    ELSE Texts
\* The user answers a prompt once it is shown; at the prompt of option 1
\* up to MaxPending lines are typed ahead.
CanType(pc, buf) ==
    IF pc = "menu" THEN Drop(buf, PrefixLen(buf, WhiteSpace)) = <<>>
    ELSE IF pc = "case1" THEN Pending(buf) < MaxPending
    ELSE buf = <<>>
\* The positions at which main has ended.
EndPcs == {"done", "crashed", "terminated"}
\* Nothing of the library's state changes.
NoCall == UNCHANGED <<call, ret, allocs, mem, logger, out>>
\* A step of main that calls no function of strTools; main of part_002
\* passes a message to the logger where logs holds.
MainOnly(logs) ==
    /\ out' = IF logs /\ main.unit = "part_002" THEN log(logger) ELSE out
    /\ UNCHANGED <<call, ret, allocs, mem, logger>>

\* The user types a line and presses return.
Type ==
    /\ main.pc \notin EndPcs \cup {"switch"}
    /\ CanType(main.pc, cin)
    /\ \E line \in Lines(main.pc) : cin' = cin \o line \o <<NL>>
    /\ UNCHANGED main
    /\ NoCall

\* The top of the loop: the menu is printed, cin >> selector, and
\* isCapturedValueInvalid() clears a failed stream and drops the line.
ReadSelector ==
    /\ main.pc = "menu"
    /\ Drop(cin, PrefixLen(cin, WhiteSpace)) # <<>>
    /\ LET e == extractInt(cin)
       IN  IF e.fail
           THEN /\ cin' = ignoreLine(e.rest)
                /\ main' = [main EXCEPT !.selector = e.val,
                                        !.extraMsg = Msg("Value is invalid!", <<>>)]
           ELSE /\ cin' = e.rest
                /\ main' = [main EXCEPT !.selector = e.val, !.pc = "switch"]
    /\ MainOnly(TRUE)

\* switch( selector ): the default label, case 0, and the entry of the cases
\* 1 to 4, each of which prints its prompt and calls cin.ignore().
Switch ==
    /\ main.pc = "switch"
    /\ LET label == switchLabel(main.unit, main.selector)
       IN  CASE label = "default" ->
                /\ main' = [main EXCEPT !.extraMsg = Msg("Value is out of bounds!", <<>>),
                                        !.pc = "menu"]
                /\ UNCHANGED cin
                /\ MainOnly(TRUE)
             [] label = "case -1" ->
                /\ main' = [main EXCEPT !.pc = "menu"]
                /\ logger' = [logger EXCEPT !.isLoggerEnabled = ~logger.isLoggerEnabled]
                /\ UNCHANGED <<cin, call, ret, allocs, mem, out>>
             [] label = "case 0" ->
                /\ main' = [main EXCEPT !.mainLoop = FALSE, !.pc = "done",
                                        !.cout = "Bye bye!"]
                /\ UNCHANGED cin
                /\ MainOnly(FALSE)
             [] OTHER ->
                /\ main' = [main EXCEPT
                                !.pc = <<"case1", "case2", "case3", "case4">>[main.selector],
                                !.strs = <<>>, !.startPos = 0,
                                !.strLowIndex = 0, !.strUppIndex = 0,
                                !.cout = "Enter"]
                /\ cin' = ignore(cin)
                /\ MainOnly(TRUE)

\* case 1: userInputHandler(strLen.get(), STRING_MAX_SIZE) on a heap buffer
\* of STRING_MAX_SIZE bytes; the exit line leaves the case, any other line
\* has its length printed.
Case1Line ==
    /\ main.pc = "case1"
    /\ Pending(cin) > 0
    /\ \E h \in userInputHandler(cin, STRING_MAX_SIZE) :
           /\ cin' = h.rest
           /\ main' = [main EXCEPT !.strs = <<h.input>>,
                                   !.pc = IF h.exit THEN "menu" ELSE "case1",
                                   !.cout = IF h.exit THEN "" ELSE "The length of"]
           /\ MainOnly(h.exit)

\* What main can hold after userInputHandler stored line.  In part_002 each
\* string has its heap buffer.  In main.cpp every char* points at the
\* literal "" (EMPTY_CHAR): the pointers are distinct buffers, or the
\* literals are pooled and every string reads as the line.
Store(unit, strs, line) ==
    {Append(strs, line)}
        \cup IF unit = "main.cpp" THEN {[k \in 1 .. Len(strs) + 1 |-> line]} ELSE {}

\* main of main.cpp is killed by the write into the string literal.
Crashes ==
    /\ main.unit = "main.cpp"
    /\ main' = [main EXCEPT !.pc = "crashed"]
    /\ UNCHANGED cin
    /\ NoCall

\* main after a library call that it observes as o: it goes on as ok when
\* the call returned; a crash ends it; an exception leaves main, or a
\* noexcept function, and std::terminate ends it.
AfterCall(m, o, ok) ==
    IF o.kind = "ok" THEN ok
    ELSE IF o = Crash THEN [m EXCEPT !.pc = "crashed"]
    ELSE [m EXCEPT !.pc = "terminated"]

\* case 2: userInputHandler(strHelper, STRING_MAX_SIZE) with strHelper the
\* literal "", three times; then the three strings are concatenated and
\* shown as the message.  The third concatStr puts the literal
\* "Concatenated string: " in front of the result and is kept as the text
\* of the message.
Case2Line ==
    /\ main.pc = "case2"
    /\ Pending(cin) > 0
    /\ \/ Crashes
       \/ \E h \in userInputHandler(cin, STRING_MAX_SIZE) :
              /\ cin' = h.rest
              /\ IF h.exit
                 THEN /\ main' = [main EXCEPT !.pc = "menu",
                                     !.extraMsg = Msg("Operation was cancelled.", <<>>)]
                      /\ MainOnly(TRUE)
                 ELSE \E strs \in Store(main.unit, main.strs, h.input) :
                      IF Len(strs) < 3
                      THEN /\ main' = [main EXCEPT !.strs = strs]
                           /\ MainOnly(FALSE)
                      ELSE LET r1 == concatStr(strs[1], strs[2])
                               r2 == IF r1.kind = "ok" THEN concatStr(r1.val, strs[3])
                                     ELSE r1
                               c == IF r1.kind = "ok"
                                    THEN Call("concatStr", r1.val, strs[3], 0, 0)
                                    ELSE Call("concatStr", strs[1], strs[2], 0, 0)
                               n == concatStrAllocs(strs[1], strs[2])
                                        + IF r1.kind = "ok"
                                          THEN concatStrAllocs(r1.val, strs[3]) ELSE 0
                               m == [main EXCEPT !.strs = strs, !.pc = "menu"]
                           IN  \E o \in Outcomes(r2) :
                               /\ Finished(c, r2, {o}, n)
                               /\ main' = AfterCall(m, o, [m EXCEPT !.extraMsg =
                                                    Msg("Concatenated string: ", o.val)])

\* case 3, the first line: the string to search in.
Case3First ==
    /\ main.pc = "case3"
    /\ Pending(cin) > 0
    /\ \/ Crashes
       \/ \E h \in userInputHandler(cin, STRING_MAX_SIZE) :
              /\ cin' = h.rest
              /\ main' = IF h.exit THEN [main EXCEPT !.pc = "menu"]
                         ELSE [main EXCEPT !.strs = <<h.input>>, !.pc = "case3_find"]
              /\ MainOnly(h.exit)

\* case 3, the second line and all that follows it: findSubStr, the test
\* startPos == -1 with its message and new prompt, subStr at startPos and
\* the message built from its result.
Case3Second ==
    /\ main.pc = "case3_find"
    /\ Pending(cin) > 0
    /\ \/ Crashes
       \/ \E h \in userInputHandler(cin, STRING_MAX_SIZE) :
              /\ cin' = h.rest
              /\ IF h.exit
                 THEN /\ main' = [main EXCEPT !.pc = "menu"]
                      /\ MainOnly(TRUE)
                 ELSE \E strs \in Store(main.unit, <<main.strs[1]>>, h.input) :
                      \E f \in FindOutcomes(findSubStr(strs[1], strs[2])) :
                      LET rFind == findSubStr(strs[1], strs[2])
                          m == [main EXCEPT !.strs = strs]
                          cFind == Call("findSubStr", strs[1], strs[2], 0, 0)
                          nFind == findSubStrAllocs(strs[1], strs[2])
                      IN  IF f.kind # "ok"
                          THEN /\ main' = [m EXCEPT !.pc = "crashed"]
                               /\ Finished(cFind, rFind, {f}, nFind)
                          ELSE IF f.val = -1
                          THEN /\ main' = [m EXCEPT !.startPos = f.val, !.cout =
                                              "Substring not found in the original string!"]
                               /\ Finished(cFind, rFind, {f}, nFind)
                          ELSE LET finalPos == strlen(strs[2])
                                   r == subStr(strs[1], f.val, finalPos)
                                   m2 == [m EXCEPT !.startPos = f.val]
                               IN  \E o \in Outcomes(r) :
                                   /\ Finished(Call("subStr", strs[1], <<>>, f.val, finalPos),
                                               r, {o}, nFind + subStrAllocs(strs[1], f.val, finalPos))
                                   /\ main' = AfterCall(m2, o, [m2 EXCEPT !.pc = "menu",
                                                  !.extraMsg = Msg("Extracted string: ", o.val)])

\* case 4, the line: the string a random substring is taken from.
Case4Line ==
    /\ main.pc = "case4"
    /\ Pending(cin) > 0
    /\ \/ Crashes
       \/ \E h \in userInputHandler(cin, STRING_MAX_SIZE) :
              /\ cin' = h.rest
              /\ main' = IF h.exit THEN [main EXCEPT !.pc = "menu"]
                         ELSE [main EXCEPT !.strs = <<h.input>>, !.pc = "case4_draw"]
              /\ MainOnly(h.exit)

\* case 4, one round of the do-while: strLowIndex = getRand(0, strLen) and
\* strUppIndex = getRand(strLowIndex + 1, strLen + 1) are drawn; the loop
\* repeats while strLowIndex >= strUppIndex or strUppIndex > strLen, else
\* subStr is called and its result printed.
Case4Draw(low, upp) ==
    /\ main.pc = "case4_draw"
    /\ LET strLen == strlen(main.strs[1])
           m == [main EXCEPT !.strLowIndex = low, !.strUppIndex = upp]
       IN  /\ low \in 0 .. strLen
           /\ upp \in (low + 1) .. (strLen + 1)
           /\ IF low >= upp \/ upp > strLen
              THEN /\ main' = m
                   /\ MainOnly(FALSE)
              ELSE LET r == subStr(main.strs[1], low, upp - low)
                   IN  \E o \in Outcomes(r) :
                       /\ Finished(Call("subStr", main.strs[1], <<>>, low, upp - low),
                                   r, {o}, subStrAllocs(main.strs[1], low, upp - low))
                       /\ main' = AfterCall(m, o, [m EXCEPT !.pc = "case4",
                                                      !.cout = "Extracted substring"])
    /\ UNCHANGED cin

\* The values getRand can return for the strings main can hold.
RandRange == 0 .. STRING_MAX_SIZE

NextMenu ==
    \/ Type
    \/ ReadSelector
    \/ Switch
    \/ Case1Line
    \/ Case2Line
    \/ Case3First
    \/ Case3Second
    \/ Case4Line
    \/ \E low \in RandRange, upp \in RandRange : Case4Draw(low, upp)

\* One of the two main functions starts.  The one of part_002 first calls
\* setLogFile, with the logger as it was constructed.
InitMenu ==
    /\ call = Call("none", <<>>, <<>>, 0, 0)
    /\ ret = NoRet
    /\ allocs = 0
    /\ mem = Untouched(<<>>, <<>>)
    /\ out = NoOut
    /\ cin = <<>>
    /\ \E unit \in MainUnits, opened \in BOOLEAN :
        /\ main = [MainInit EXCEPT !.unit = unit]
        /\ logger = IF unit = "part_002"
                    THEN setLogFile(LoggerInit, "./src/_dump.log", opened)
                    ELSE LoggerInit

SpecMenu == InitMenu /\ [][NextMenu]_vars

\* ------------------------------------------------------ the line readers
\* A caller that holds a buffer of STRING_MAX_SIZE bytes is at its prompt,
\* as main is in option 1 before the first line is read.
InitReader ==
    /\ call = Call("none", <<>>, <<>>, 0, 0)
    /\ ret = NoRet
    /\ allocs = 0
    /\ mem = Untouched(<<>>, <<>>)
    /\ logger = LoggerInit
    /\ out = NoOut
    /\ cin = <<>>
    /\ main = [MainInit EXCEPT !.pc = "case1", !.selector = 1]

\* bool exit = helpers::userInputHandler(input, bufferSize) by a caller that
\* reads lines until the exit line, as the example of its documentation does.
HelpersLine ==
    /\ main.pc = "case1"
    /\ Pending(cin) > 0
    /\ LET h == helpers_userInputHandler(cin, STRING_MAX_SIZE)
       IN  /\ h.returns
           /\ cin' = h.rest
           /\ main' = [main EXCEPT !.strs = <<h.input>>,
                                   !.pc = IF h.exit THEN "menu" ELSE "case1",
                                   !.cout = IF h.exit THEN "Exit command received."
                                            ELSE "You entered"]
    /\ NoCall

NextReader ==
    \/ Type
    \/ Case1Line
    \/ HelpersLine

SpecReader == InitReader /\ [][NextReader]_vars

\* ------------------------------------------------ the random loop of case 4
\* main inside case 4, after a string was read and before indices are drawn.
InitRandom ==
    /\ call = Call("none", <<>>, <<>>, 0, 0)
    /\ ret = NoRet
    /\ allocs = 0
    /\ mem = Untouched(<<>>, <<>>)
    /\ logger = LoggerInit
    /\ out = NoOut
    /\ cin = <<>>
    /\ \E s \in Strings :
        main = [MainInit EXCEPT !.pc = "case4_draw", !.selector = 4, !.strs = <<s>>]

NextRandom == \E low \in RandRange, upp \in RandRange : Case4Draw(low, upp)

\* No pair of values that getRand can return is left out for ever.
SpecRandom ==
    /\ InitRandom
    /\ [][NextRandom]_vars
    /\ \A low \in RandRange, upp \in RandRange : WF_vars(Case4Draw(low, upp))

TypeOK ==
    /\ call.op \in {"none", "concatStr", "subStr", "insertStr", "delSubStr",
                    "findSubStr", "replaceStr", "splitJoin", "insertThenDelete",
                    "findThenSubStr"}
    /\ ret.kind \in {"none", "ok", "runtime_error", "bad_alloc", "crash"}
    /\ call.op = "findSubStr" \/ ret.val \in Seq(Alphabet)
    /\ allocs \in 0 .. 4
    /\ logger \in [isLoggerEnabled : BOOLEAN, isFileOpen : BOOLEAN,
                   logFile : FileNames \cup {""}]
    /\ out \in [console : BOOLEAN, file : BOOLEAN]

\* ------------------------------------------------------------- vocabulary
\* The call failed with the exception checkLogicErrors throws.
Failed == ret.kind = "runtime_error"
\* The call returned the C string v.
Returned(v) == ret = Ok(v)
\* The bytes of s at the 0-based offsets a .. a + n - 1.
Window(s, a, n) == SubSeq(s, a + 1, a + n)
\* The pair (i, j) names a window of s that subStr's contract accepts.
Accepted(s, i, j) == i < Len(s) /\ i + j <= Len(s)

\* ------------------------------------------------------------- properties
\* C1: for every string s and every accepted pair (i, j), subStr(s, i, j)
\* returns exactly the j bytes s[i], ..., s[i+j-1], so the result has length j.
C1_SubStrReturnsWindow ==
    (call.op = "subStr" /\ Accepted(call.s, call.i, call.j)) =>
        /\ ret.kind = "ok"
        /\ Len(ret.val) = call.j
        /\ \A k \in 1 .. call.j : ret.val[k] = call.s[call.i + k]

\* A subStr call that extracted a proper inner window: offset and length positive.
C1_Witness ==
    /\ call.op = "subStr"
    /\ call.i > 0 /\ call.j > 1
    /\ Accepted(call.s, call.i, call.j)
    /\ call.s[call.i] # call.s[call.i + 1]
    /\ Returned(Window(call.s, call.i, call.j))

\* C2: subStr(s, i, j) fails whenever i >= length(s) or i + j > length(s),
\* and returns a result for every other pair (i, j).
C2_SubStrFailsIffOutOfRange ==
    call.op = "subStr" =>
        IF call.i >= Len(call.s) \/ call.i + call.j > Len(call.s)
        THEN Failed
        ELSE ret.kind = "ok"

\* C3: subStr(s, length(s), 0) returns the empty string for every s, and
\* subStr(s, length(s) + 1, 0) fails.
C3_SubStrBoundary ==
    (call.op = "subStr" /\ call.j = 0) =>
        /\ call.i = Len(call.s) => Returned(<<>>)
        /\ call.i = Len(call.s) + 1 => Failed

\* C4: concatStr(s1, s2) never fails and returns s1 followed by s2; with an
\* empty operand the result is byte-equal to the other operand.
C4_ConcatIsAppend ==
    call.op = "concatStr" =>
        /\ Returned(call.s \o call.t)
        /\ Len(ret.val) = Len(call.s) + Len(call.t)
        /\ call.t = <<>> => ret.val = call.s
        /\ call.s = <<>> => ret.val = call.t

\* A concatStr call of two different non-empty strings that returned.
C4_Witness ==
    /\ call.op = "concatStr"
    /\ call.s # <<>> /\ call.t # <<>> /\ call.s # call.t
    /\ ret.kind = "ok"
    /\ Len(ret.val) = Len(call.s) + Len(call.t)

\* C5: for every s and every 0 <= i <= length(s),
\* concat(substring(s, 0, i), substring(s, i, length(s) - i)) succeeds and
\* is byte-equal to s.
C5_SplitJoinRoundTrip ==
    (call.op = "splitJoin" /\ call.i <= Len(call.s)) => Returned(call.s)

\* C6: for every i in [1, length(s1) + 1], insertStr(s1, s2, i) returns the
\* first i - 1 bytes of s1, then s2, then the remaining bytes of s1.
C6_InsertSplices ==
    (call.op = "insertStr" /\ call.i \in 1 .. Len(call.s) + 1) =>
        Returned(SubSeq(call.s, 1, call.i - 1) \o call.t
                    \o SubSeq(call.s, call.i, Len(call.s)))

\* C7: insertStr(s1, s2, i) fails exactly when i is outside [1, length(s1) + 1].
C7_InsertFailsIffOutOfRange ==
    call.op = "insertStr" =>
        (Failed <=> call.i \notin 1 .. Len(call.s) + 1)

\* C8: for every i, j with i + j <= length(s), delSubStr(s, i, j) returns the
\* first i bytes of s followed by the bytes of s from offset i + j on.
C8_DeleteRemovesWindow ==
    (call.op = "delSubStr" /\ call.i + call.j <= Len(call.s)) =>
        Returned(SubSeq(call.s, 1, call.i)
                    \o SubSeq(call.s, call.i + call.j + 1, Len(call.s)))

\* C9: delSubStr(s, i, j) fails when i, j or i + j is outside [0, length(s)]
\* and does not fail when all three are inside.
C9_DeleteFailsIffOutOfRange ==
    call.op = "delSubStr" =>
        (Failed <=> ~(/\ call.i <= Len(call.s)
                      /\ call.j <= Len(call.s)
                      /\ call.i + call.j <= Len(call.s)))

\* C10: for every valid i in [1, length(s1) + 1],
\* deleteRange(insert(s1, s2, i), i, length(s2)) succeeds and is byte-equal to s1.
C10_InsertDeleteInverse ==
    (call.op = "insertThenDelete" /\ call.i \in 1 .. Len(call.s) + 1) =>
        Returned(call.s)

\* s with every ASCII upper-case letter replaced by its lower-case letter.
FoldCase(s) == [k \in 1 .. Len(s) |-> IF s[k] >= 65 /\ s[k] <= 90 THEN s[k] + 32 ELSE s[k]]
\* The offsets at which needle occurs in s when letter case is ignored.
Matches(s, needle) ==
    { r \in 0 .. Len(s) :
        /\ r + Len(needle) <= Len(s)
        /\ FoldCase(SubSeq(s, r + 1, r + Len(needle))) = FoldCase(needle) }
\* The offsets at which needle occurs in s byte for byte.
Literal(s, needle) ==
    { r \in 0 .. Len(s) :
        r + Len(needle) <= Len(s) /\ SubSeq(s, r + 1, r + Len(needle)) = needle }
\* The least element of a non-empty set of numbers.
Least(S) == CHOOSE x \in S : \A y \in S : x <= y
\* The operations of the library.
StringOps ==
    {"concatStr", "subStr", "insertStr", "delSubStr", "findSubStr", "replaceStr"}

\* C11: findSubStr(s, needle) returns the lowest offset at which needle occurs
\* in s when letter case is ignored, and the not-found value exactly when
\* there is no such offset.
C11_FindLowestMatch ==
    call.op = "findSubStr" =>
        ret = Found(IF Matches(call.s, call.t) = {} THEN Int64Max
                    ELSE Least(Matches(call.s, call.t)))

\* C12: findSubStr(s, "") returns 0 for every s, the empty s included.
C12_EmptyNeedleAtZero ==
    (call.op = "findSubStr" /\ call.t = <<>>) => ret = Found(0)

\* C13: changing the case of ASCII letters in s, in needle or in both never
\* changes the value findSubStr returns.
C13_FindIgnoresCase ==
    call.op = "findSubStr" =>
        \A s2 \in FindStrings, t2 \in FindStrings :
            (FoldCase(s2) = FoldCase(call.s) /\ FoldCase(t2) = FoldCase(call.t))
                => ret = findSubStr(s2, t2)

\* C14: when needle occurs byte for byte in s, lowest at offset p,
\* replaceStr(s, needle, replacement) returns s[0..p), then replacement, then
\* s[p + length(needle)..end); later occurrences stay as they are.
C14_ReplaceFirstOccurrence ==
    (call.op = "replaceStr" /\ Literal(call.s, call.t) # {}) =>
        LET p == Least(Literal(call.s, call.t))
        IN  Returned(SubSeq(call.s, 1, p) \o call.u
                        \o SubSeq(call.s, p + Len(call.t) + 1, Len(call.s)))

\* A replaceStr call whose needle occurs twice in s and whose result still
\* holds the second occurrence.
C14_Witness ==
    /\ call.op = "replaceStr"
    /\ call.t # <<>> /\ call.u # call.t
    /\ Cardinality(Literal(call.s, call.t)) >= 2
    /\ ret.kind = "ok"
    /\ Literal(ret.val, call.t) # {}
    /\ ret.val # call.s

\* C15: when needle does not occur byte for byte in s,
\* replaceStr(s, needle, replacement) returns a copy byte-equal to s.
C15_ReplaceAbsentIsCopy ==
    (call.op = "replaceStr" /\ Literal(call.s, call.t) = {}) => Returned(call.s)

\* C16: delSubStr("Hello, World!", 7, 6) succeeds and returns "Hello, !".
C16_DeleteExample ==
    (call.op = "delSubStr" /\ call.s = HelloWorld /\ call.i = 7 /\ call.j = 6)
        => Returned(HelloBang)

\* C17: the value findSubStr returns for "absent", passed as the offset i of
\* subStr(s, i, j), is rejected by subStr's bounds check for every s and j.
C17_AbsentOffsetRejected ==
    (call.op = "findThenSubStr" /\ call.i = Int64Max) => Failed

\* A chained call in which the needle is absent, the not-found value was
\* handed to subStr with a length that makes i + j wrap, and subStr threw.
C17_Witness ==
    /\ call.op = "findThenSubStr"
    /\ call.s # <<>> /\ Matches(call.s, call.t) = {}
    /\ call.i = Int64Max
    /\ call.i + call.j >= Word
    /\ Failed

\* C18: whenever subStr, insertStr or delSubStr fails, the call has allocated
\* no buffer, intermediate or final.
C18_NoAllocationBeforeFailure ==
    (call.op \in {"subStr", "insertStr", "delSubStr"} /\ Failed) => allocs = 0

\* C19: every operation leaves the bytes of its input strings unchanged and
\* returns a buffer that shares no storage with an argument.
C19_InputsUntouched ==
    call.op \in StringOps => mem = Untouched(call.s, call.t)

\* C20: the result of every call of the library depends only on its
\* arguments: it is what the function yields for them, in every state of the
\* logger and after every sequence of earlier calls.
C20_ResultDependsOnArgumentsOnly ==
    call.op \in StringOps =>
        ret = Apply(call.op, call.s, call.t, call.u, call.i, call.j)

\* C21: every bounds violation that subStr, insertStr or delSubStr reports is
\* reported as std::out_of_range, and as no other kind of error.
C21_BoundsErrorsAreOutOfRange ==
    (call.op \in {"subStr", "insertStr", "delSubStr"}
        /\ ret.kind \notin {"none", "ok", "crash"})
        => ret.kind = "out_of_range"

\* C27: subStr rejects every pair whose true sum i + j exceeds length(s), so
\* that no such pair reaches the allocation of j + 1 bytes and the copy.
C27_NoWraparoundPastCheck ==
    (call.op = "subStr" /\ call.i + call.j > Len(call.s))
        => (Failed /\ allocs = 0)

\* C28: for all s, sub1, sub2 replaceStr computes length(s) - length(sub1)
\* + length(sub2) + 1 without underflow, writes only inside the buffer of
\* that size and reads s only at offsets 0 .. length(s).
C28_ReplaceStaysInBounds ==
    call.op = "replaceStr" =>
        /\ Len(call.s) - Len(call.t) + Len(call.u) >= 0
        /\ replaceStr(call.s, call.t, call.u).kind \notin {"ub", "bad_alloc"}

\* C29: the lower-case copies findSubStr makes of s and of needle are
\* written entirely inside their buffers, whatever the length of the strings.
C29_LowerCopiesStayInBounds ==
    call.op = "findSubStr" =>
        toLower(call.s).kind # "ub" /\ toLower(call.t).kind # "ub"

\* C24: for every selection outside 0 .. 4 the menu sets the message "Value
\* is out of bounds!", runs no operation and changes nothing else of the
\* program's state before the menu is shown again.
C24_OutOfBoundsSelection ==
    [][(main.pc = "switch" /\ main.selector \notin 0 .. 4) =>
            /\ main' = [main EXCEPT !.extraMsg = Msg("Value is out of bounds!", <<>>),
                                    !.pc = "menu"]
            /\ UNCHANGED <<cin, call, ret, allocs, mem, logger>>]_vars

\* C30: a call of userInputHandler(input, size) takes exactly the first line
\* out of cin, whatever its length: input holds the line cut to size - 1
\* characters, and the lines after it stay in cin untouched.
C30_OneLinePerCall ==
    [][(main.pc = "case1" /\ Len(cin') < Len(cin)) =>
            LET lineLen == PrefixLen(cin, (0 .. 255) \ {NL})
            IN  /\ cin' = Drop(cin, lineLen + 1)
                /\ main'.strs = <<Take(cin, min(lineLen, STRING_MAX_SIZE - 1))>>]_vars

\* C22: in option 3, whenever the substring entered does not occur in the
\* string entered, main shows the not-found message and asks for the
\* substring again; subStr is only called with an offset at which the
\* substring was found.
C22_SearchAbsentPromptsAgain ==
    (main.selector = 3 /\ Len(main.strs) = 2 /\ main.pc # "crashed") =>
        /\ Matches(main.strs[1], main.strs[2]) = {} =>
                /\ main.pc = "case3_find"
                /\ main.cout = "Substring not found in the original string!"
        /\ call.op = "subStr" => call.i \in Matches(call.s, main.strs[2])

\* C23: main leaves its loop only through selection 0, with the farewell;
\* no operation of the menu ends the program in another way.
C23_LoopEndsOnlyOnZero ==
    main.pc \in EndPcs =>
        (main.pc = "done" /\ main.selector = 0 /\ main.cout = "Bye bye!")

\* C26: in option 4, for every string entered, the empty string included,
\* the loop that draws the random indices is left after finitely many rounds.
C26_RandomLoopExits ==
    <>(main.pc # "case4_draw")

\* C25: while the logger is disabled, log and setLogFile write nothing and
\* leave isFileOpen and the open file as they are; a message is written to
\* the file only by a call made while the logger is enabled and a file is
\* open, and a file becomes the open one only by a setLogFile that succeeds
\* while the logger is enabled.
C25_DisabledLoggerIsInert ==
    [][/\ (~logger.isLoggerEnabled /\ ~logger'.isLoggerEnabled) =>
                (logger' = logger /\ out' = NoOut)
       /\ out'.file => (logger.isLoggerEnabled /\ logger.isFileOpen)
       /\ ((logger'.isFileOpen /\ logger'.logFile # logger.logFile)
                \/ (logger'.isFileOpen /\ ~logger.isFileOpen)) =>
                (logger.isLoggerEnabled /\ logger'.isLoggerEnabled)]_vars

\* A function of the library was called while the logger was disabled with
\* a file open, and nothing was written.
C25_Witness ==
    /\ call.op # "none"
    /\ ~logger.isLoggerEnabled /\ logger.isFileOpen
    /\ out = NoOut
====
